---- MODULE Spec2Model ----
(***************************************************************************)
(* A model of simple_icons_cli/main.py: the catalog loader get_data, the   *)
(* resolver resolve_icon, the info and download commands and the exporter  *)
(* convert_image.                                                          *)
(*                                                                         *)
(* Text is a sequence of one-character strings; two multi-character        *)
(* tokens, "<svg" and the attribute opener opacity=" are kept whole in     *)
(* vector documents.                                                       *)
(***************************************************************************)
EXTENDS Integers, Sequences, FiniteSets, TLC

VARIABLES
    cmd,          \* the command invoked: "info" or "download", "pure" in the function specs
    pc,           \* the position in the command's body
    exitCode,     \* Running, 0 on return, 1 after sys.exit(1) or a traceback
    err,          \* which message was printed on stderr, None if none
    cache,        \* CACHE_FILE: [state |-> "absent" | "valid" | "corrupt", data |-> contents]
    remote,       \* the catalog DATA_URL serves
    icons,        \* what get_data returned, None before
    query,        \* the slug argument as typed
    icon_data,    \* what resolve_icon returned
    fuzzyTried,   \* whether process.extractOne was called
    netlog,       \* the requests.get calls made so far, in order
    color, invert, opacity, background, format, output,   \* download's options
    formatArg,    \* --format as given; format is reassigned by download
    cache0,       \* CACHE_FILE as the command found it
    cairosvg, Image,   \* the optional imports: TRUE when the module was imported
    slug,         \* download's local slug, reassigned to the resolved record's slug
    target_hex,   \* download's target_hex
    target,       \* download's target path
    svg_content,  \* download's svg_content
    fsTarget,     \* the file at the target path: "absent", "old", "partial", "complete"
    staging,      \* whether convert_image's temporary directory exists
    staged,       \* the raster files written into icon.iconset
    ladder,       \* the resolutions of the icns loop still to do
    density,      \* 1 or 2: which of the two renderings of the current resolution
    failure,      \* the step that raised during the export, None if none
    input,        \* function specs: the value the function was first applied to
    passes,       \* function specs: how many times the function was applied
    first         \* function specs: the result of the first application

vars == <<cmd, pc, exitCode, err, cache, remote, icons, query, icon_data, fuzzyTried,
          netlog, color, invert, opacity, background, format, output, formatArg, cache0,
          cairosvg, Image,
          slug, target_hex, target, svg_content, fsTarget, staging, staged, ladder,
          density, failure, input, passes, first>>

\* Python's None, one per kind of value so that it compares with the others.
None == "None"                 \* where the value is a string of the model
NoneStr == <<"None">>          \* where it is text
NoneRec == [none |-> TRUE]     \* where it is a record or a path
Running == 0 - 1                 \* exitCode of a command that has not ended

\* ------------------------------------------------------------------ text

Max(a, b) == IF a >= b THEN a ELSE b

\* All sequences over S of length lo..hi.
SeqsOf(S, lo, hi) == UNION {[1..n -> S] : n \in lo..hi}

\* str.lower() on the letters the model uses.
LowerChar(c) ==
    CASE c = "P" -> "p" [] c = "N" -> "n" [] c = "G" -> "g" [] c = "J" -> "j"
      [] c = "S" -> "s" [] c = "V" -> "v" [] c = "I" -> "i" [] c = "C" -> "c"
      [] c = "O" -> "o" [] c = "T" -> "t" [] c = "X" -> "x"
      [] c = "A" -> "a" [] c = "B" -> "b" [] c = "D" -> "d" [] c = "E" -> "e"
      [] c = "F" -> "f"
      [] OTHER -> c

Lower(s) == [i \in 1..Len(s) |-> LowerChar(s[i])]

\* str.lstrip(ch): drop the leading run of ch.
RECURSIVE LStrip(_, _)
LStrip(s, ch) == IF s # <<>> /\ Head(s) = ch THEN LStrip(Tail(s), ch) ELSE s

\* str.rfind(ch): the last index of ch, counted from 0, -1 when absent.
RFind(s, ch) ==
    IF \E i \in 1..Len(s) : s[i] = ch
    THEN (CHOOSE i \in 1..Len(s) : s[i] = ch /\ \A j \in (i+1)..Len(s) : s[j] # ch) - 1
    ELSE -1

\* pathlib's PurePath.suffix of a final path component.
PathSuffix(name) ==
    LET i == RFind(name, ".")
    IN IF 0 < i /\ i < Len(name) - 1 THEN SubSeq(name, i + 1, Len(name)) ELSE <<>>

\* ------------------------------------------------------------------ resolver

\* The length of a longest common subsequence.
RECURSIVE LCS(_, _)
LCS(s, t) ==
    IF s = <<>> \/ t = <<>> THEN 0
    ELSE IF Head(s) = Head(t) THEN 1 + LCS(Tail(s), Tail(t))
    ELSE Max(LCS(Tail(s), t), LCS(s, Tail(t)))

\* rapidfuzz fuzz.ratio: the normalized Indel similarity times 100,
\* 100 * (1 - (len1 + len2 - 2 * lcs) / (len1 + len2)), kept as an exact
\* fraction num / den; two empty strings score 100.
FuzzRatio(s, t) ==
    IF Len(s) + Len(t) = 0 THEN [num |-> 100, den |-> 1]
    ELSE [num |-> 200 * LCS(s, t), den |-> Len(s) + Len(t)]

ScoreGreater(a, b) == a.num * b.den > b.num * a.den
ScoreAtLeast(a, n) == a.num >= n * a.den

\* process.extractOne(query, choices, scorer=fuzz.ratio): None for no choices,
\* else (choice, score, index) of the first choice with the highest score.
ExtractOne(q, choices) ==
    IF choices = <<>> THEN NoneRec
    ELSE LET best == CHOOSE i \in 1..Len(choices) :
                        /\ \A j \in 1..Len(choices) :
                              ~ScoreGreater(FuzzRatio(q, choices[j]), FuzzRatio(q, choices[i]))
                        /\ \A j \in 1..(i-1) :
                              ScoreGreater(FuzzRatio(q, choices[i]), FuzzRatio(q, choices[j]))
         IN [choice |-> choices[best], score |-> FuzzRatio(q, choices[best]), index |-> best]

\* next((i for i in icons if i["slug"] == s), None)
FirstWithSlug(s, list) ==
    IF \E i \in 1..Len(list) : list[i].slug = s
    THEN list[CHOOSE i \in 1..Len(list) :
                 list[i].slug = s /\ \A j \in 1..(i-1) : list[j].slug # s]
    ELSE NoneRec

FuzzyThreshold == 60

\* A variant of resolve_icon with the threshold at 50.
resolve_icon_threshold50(q, list) ==
    IF FirstWithSlug(q, list) # NoneRec
    THEN [icon |-> FirstWithSlug(q, list), fuzzy |-> FALSE]
    ELSE LET match == ExtractOne(q, [i \in 1..Len(list) |-> list[i].slug])
         IN IF match # NoneRec /\ ScoreAtLeast(match.score, 50)
            THEN [icon |-> FirstWithSlug(match.choice, list), fuzzy |-> TRUE]
            ELSE [icon |-> NoneRec, fuzzy |-> TRUE]

\* A variant of resolve_icon that goes to the fuzzy step at once.
resolve_icon_fuzzy_only(q, list) ==
    LET match == ExtractOne(q, [i \in 1..Len(list) |-> list[i].slug])
    IN IF match # NoneRec /\ ScoreAtLeast(match.score, FuzzyThreshold)
       THEN [icon |-> FirstWithSlug(match.choice, list), fuzzy |-> TRUE]
       ELSE [icon |-> NoneRec, fuzzy |-> TRUE]

\* resolve_icon(query, icons): the record returned (None for not found) and
\* whether the fuzzy step ran.
resolve_icon(q, list) ==
    IF FirstWithSlug(q, list) # NoneRec
    THEN [icon |-> FirstWithSlug(q, list), fuzzy |-> FALSE]
    ELSE LET match == ExtractOne(q, [i \in 1..Len(list) |-> list[i].slug])
         IN IF match # NoneRec /\ ScoreAtLeast(match.score, FuzzyThreshold)
            THEN [icon |-> FirstWithSlug(match.choice, list), fuzzy |-> TRUE]
            ELSE [icon |-> NoneRec, fuzzy |-> TRUE]

\* ------------------------------------------------------------------ colour

HexWidth == 6

\* The value of one hexadecimal digit, as int(s, 16) reads it.
HexVal(c) ==
    CASE c = "0" -> 0 [] c = "1" -> 1 [] c = "2" -> 2 [] c = "3" -> 3 [] c = "4" -> 4
      [] c = "5" -> 5 [] c = "6" -> 6 [] c = "7" -> 7 [] c = "8" -> 8 [] c = "9" -> 9
      [] c \in {"A", "a"} -> 10 [] c \in {"B", "b"} -> 11 [] c \in {"C", "c"} -> 12
      [] c \in {"D", "d"} -> 13 [] c \in {"E", "e"} -> 14 [] c \in {"F", "f"} -> 15

HexDigit(d) == <<"0", "1", "2", "3", "4", "5", "6", "7", "8", "9",
                 "A", "B", "C", "D", "E", "F">>[d + 1]

\* int(s, 16) of a string of hexadecimal digits.
RECURSIVE ParseHex(_)
ParseHex(s) ==
    IF s = <<>> THEN 0
    ELSE 16 * ParseHex(SubSeq(s, 1, Len(s) - 1)) + HexVal(s[Len(s)])

\* a ^ b on non-negative integers, bit by bit.
RECURSIVE BitXor(_, _)
BitXor(a, b) ==
    IF a = 0 THEN b
    ELSE IF b = 0 THEN a
    ELSE 2 * BitXor(a \div 2, b \div 2) + (IF a % 2 = b % 2 THEN 0 ELSE 1)

\* f"{n:X}": the uppercase digits of n, at least one.
RECURSIVE UpperHex(_)
UpperHex(n) ==
    IF n < 16 THEN <<HexDigit(n)>> ELSE Append(UpperHex(n \div 16), HexDigit(n % 16))

\* f"{n:06X}": zero-padded on the left to HexWidth digits.
RECURSIVE ZeroPad(_)
ZeroPad(s) == IF Len(s) >= HexWidth THEN s ELSE ZeroPad(<<"0">> \o s)

Format06X(n) == ZeroPad(UpperHex(n))

WhiteRGB == 16777215    \* 0xFFFFFF

Truthy(s) == s # NoneStr /\ s # <<>>

\* A variant of resolve_color that re-encodes with f"{:X}", without the padding.
resolve_color_unpadded(c, inv, default_hex) ==
    IF Truthy(c) \/ inv
    THEN LET hex_str == IF Truthy(c) THEN LStrip(c, "#") ELSE default_hex
         IN IF inv THEN UpperHex(BitXor(WhiteRGB, ParseHex(hex_str))) ELSE hex_str
    ELSE NoneStr

\* download, "1. Resolve Color": target_hex from --color, --invert and the
\* record's hex.
resolve_color(c, inv, default_hex) ==
    IF Truthy(c) \/ inv
    THEN LET hex_str == IF Truthy(c) THEN LStrip(c, "#") ELSE default_hex
         IN IF inv THEN Format06X(BitXor(WhiteRGB, ParseHex(hex_str))) ELSE hex_str
    ELSE NoneStr

\* ------------------------------------------------------------------ opacity

\* --opacity is a float; the model counts it in units of 0.00001.
OpacityOne == 100000

\* f"{opacity}": the repr of the float.
FormatFloat(x) ==
    CASE x = 0 -> <<"0", ".", "0">>
      [] x = 1 -> <<"1", "e", "-", "0", "5">>
      [] x = 30000 -> <<"0", ".", "3">>
      [] x = 50000 -> <<"0", ".", "5">>
      [] x = 100000 -> <<"1", ".", "0">>
      [] x = 150000 -> <<"1", ".", "5">>
      [] x = -50000 -> <<"-", "0", ".", "5">>

SvgOpen == "<svg"
OpacityAttr == "opacity=\""
Quote == "\""

\* The class [\d\.] of the pattern.
DigitOrDot(c) == c \in {"0", "1", "2", "3", "4", "5", "6", "7", "8", "9", "."}

\* The end of the longest run of [\d\.] that starts at i (i - 1 for none).
RECURSIVE RunEnd(_, _)
RunEnd(s, i) == IF i <= Len(s) /\ DigitOrDot(s[i]) THEN RunEnd(s, i + 1) ELSE i - 1

\* Where a match of opacity="[\d\.]+" that starts at i ends, 0 for no match.
MatchEnd(s, i) ==
    IF s[i] = OpacityAttr /\ RunEnd(s, i + 1) >= i + 1
       /\ RunEnd(s, i + 1) < Len(s) /\ s[RunEnd(s, i + 1) + 1] = Quote
    THEN RunEnd(s, i + 1) + 1
    ELSE 0

\* re.sub(r'opacity="[\d\.]+"', repl, s): every leftmost non-overlapping match.
RECURSIVE SubOpacity(_, _, _)
SubOpacity(s, i, repl) ==
    IF i > Len(s) THEN <<>>
    ELSE IF MatchEnd(s, i) # 0 THEN repl \o SubOpacity(s, MatchEnd(s, i) + 1, repl)
    ELSE <<s[i]>> \o SubOpacity(s, i + 1, repl)

\* re.sub(r'<svg', repl, s)
RECURSIVE SubSvg(_, _, _)
SubSvg(s, i, repl) ==
    IF i > Len(s) THEN <<>>
    ELSE (IF s[i] = SvgOpen THEN repl ELSE <<s[i]>>) \o SubSvg(s, i + 1, repl)

HasOpacity(s) == \E i \in 1..Len(s) : s[i] = OpacityAttr

\* A variant of the opacity edit that injects the attribute whether or not the
\* document has one already.
apply_opacity_always_inject(svg, x) ==
    IF x < OpacityOne
    THEN SubSvg(svg, 1, <<SvgOpen, " ", OpacityAttr>> \o FormatFloat(x) \o <<Quote>>)
    ELSE svg

\* download, "4. Apply Opacity".  The bytes are decoded and re-encoded as
\* UTF-8, which returns the same bytes for the ASCII documents of the model.
apply_opacity(svg, x) ==
    IF x < OpacityOne
    THEN IF HasOpacity(svg)
         THEN SubOpacity(svg, 1, <<OpacityAttr>> \o FormatFloat(x) \o <<Quote>>)
         ELSE SubSvg(svg, 1, <<SvgOpen, " ", OpacityAttr>> \o FormatFloat(x) \o <<Quote>>)
    ELSE svg

\* ------------------------------------------------------------------ format

SVG == <<"s", "v", "g">>
PNG == <<"p", "n", "g">>
ICO == <<"i", "c", "o">>
JPG == <<"j", "p", "g">>
ICNS == <<"i", "c", "n", "s">>

\* download, "3. Resolve Format": out is None or [name, is_dir].
decide_format(fmt, out) ==
    IF out # NoneRec /\ ~out.is_dir /\ PathSuffix(out.name) # <<>>
    THEN LStrip(Lower(PathSuffix(out.name)), ".")
    ELSE Lower(fmt)

\* download's target for the chosen format.
target_path(s, fmt, out) ==
    LET filename == s \o <<".">> \o fmt
    IN IF out # NoneRec /\ out.is_dir THEN out.name \o <<"/">> \o filename
       ELSE IF out # NoneRec THEN out.name
       ELSE filename

\* ------------------------------------------------------------------ state

optVars == <<color, invert, opacity, background, output, cairosvg, Image, formatArg, cache0>>
fnVars == <<input, passes, first>>
icnsVars == <<staging, staged, ladder, density>>
loadVars == <<cache, remote, icons, query>>

\* What a truncated or corrupt CACHE_FILE would yield if it were trusted.
Junk == <<[slug |-> <<"#">>, title |-> 0, hex |-> <<"0", "0", "0", "0", "0", "0">>]>>

\* A catalog: the records of a JSON array, here with the given slugs in order;
\* the title stands for the rest of the record and tells two records apart.
CatalogOf(slugs) ==
    [i \in 1..Len(slugs) |->
        [slug |-> slugs[i], title |-> i, hex |-> <<"1", "D", "A", "1", "F", "2">>]]

\* The vector document the CDN serves: a root element with one nested element
\* that carries its own opacity.
AssetDoc == <<SvgOpen, ">", "<", "p", " ", OpacityAttr, "1", Quote, ">">>

\* ------------------------------------------------------------------ get_data

\* A variant of get_data that returns whatever the cache file holds when it
\* exists, parseable or not.
GetData_trust_cache ==
    /\ pc = "get_data"
    /\ IF cache.state # "absent"
       THEN /\ icons' = cache.data
            /\ pc' = "resolve"
            /\ UNCHANGED <<cache, netlog, err, exitCode>>
       ELSE /\ netlog' = Append(netlog, "catalog")
            /\ cache' = [state |-> "valid", data |-> remote]
            /\ icons' = remote
            /\ pc' = "resolve"
            /\ UNCHANGED <<err, exitCode>>
    /\ UNCHANGED <<cmd, remote, query, icon_data, fuzzyTried, format, slug, target_hex,
                   target, svg_content, fsTarget, failure>>
    /\ UNCHANGED <<optVars, fnVars, icnsVars>>

\* get_data(): the cached catalog when CACHE_FILE exists and parses; otherwise
\* one GET of DATA_URL, whose result is written to CACHE_FILE and returned.  Any
\* exception between the GET and the write prints "Error fetching data" and
\* exits with status 1.  CACHE_PATH.mkdir can only fail while the cache
\* directory is missing, so not when the file exists; it is outside the try.
GetData ==
    /\ pc = "get_data"
    /\ IF cache.state = "valid"
       THEN /\ icons' = cache.data
            /\ pc' = "resolve"
            /\ UNCHANGED <<cache, netlog, err, exitCode>>
       ELSE \E r \in {"ok", "mkdir_error", "request_error", "http_error", "bad_json",
                      "write_error"} :
              /\ r = "mkdir_error" => cache.state = "absent"
              /\ netlog' = IF r = "mkdir_error" THEN netlog ELSE Append(netlog, "catalog")
              /\ cache' = CASE r = "ok" -> [state |-> "valid", data |-> remote]
                            [] r = "write_error" -> [state |-> "corrupt", data |-> Junk]
                            [] OTHER -> cache
              /\ icons' = IF r = "ok" THEN remote ELSE icons
              /\ pc' = IF r = "ok" THEN "resolve" ELSE "exit"
              /\ err' = CASE r = "ok" -> err
                          [] r = "mkdir_error" -> "traceback"
                          [] OTHER -> "fetchdata"
              /\ exitCode' = IF r = "ok" THEN exitCode ELSE 1
    /\ UNCHANGED <<cmd, remote, query, icon_data, fuzzyTried, format, slug, target_hex,
                   target, svg_content, fsTarget, failure>>
    /\ UNCHANGED <<optVars, fnVars, icnsVars>>

\* ------------------------------------------------------------------ info, download

\* icon = resolve_icon(slug, icons) and the "if not icon" test of info and of
\* download; download then takes the record's slug.
Resolve ==
    /\ pc = "resolve"
    /\ LET r == resolve_icon(query, icons)
       IN /\ icon_data' = r.icon
          /\ fuzzyTried' = r.fuzzy
          /\ IF r.icon = NoneRec
             THEN /\ err' = "notfound"
                  /\ exitCode' = 1
                  /\ pc' = "exit"
                  /\ slug' = slug
             ELSE /\ pc' = IF cmd = "info" THEN "info_print" ELSE "color"
                  /\ slug' = IF cmd = "info" THEN slug ELSE r.icon.slug
                  /\ UNCHANGED <<err, exitCode>>
    /\ UNCHANGED <<cmd, netlog, format, target_hex, target, svg_content, fsTarget, failure>>
    /\ UNCHANGED <<loadVars, optVars, fnVars, icnsVars>>

\* info: print the record's title, slug and hex, and return.
InfoPrint ==
    /\ pc = "info_print"
    /\ pc' = "done"
    /\ exitCode' = 0
    /\ UNCHANGED <<cmd, err, icon_data, fuzzyTried, netlog, format, slug, target_hex, target,
                   svg_content, fsTarget, failure>>
    /\ UNCHANGED <<loadVars, optVars, fnVars, icnsVars>>

\* download, "1. Resolve Color".  The colours of the model are hex digits, so
\* int(hex_str, 16) does not raise.
ResolveColor ==
    /\ pc = "color"
    /\ target_hex' = resolve_color(color, invert, icon_data.hex)
    /\ pc' = "format"
    /\ UNCHANGED <<cmd, exitCode, err, icon_data, fuzzyTried, netlog, format, slug, target,
                   svg_content, fsTarget, failure>>
    /\ UNCHANGED <<loadVars, optVars, fnVars, icnsVars>>

\* download, "2. Construct URL".
Url == IF Truthy(target_hex) THEN slug \o <<"/">> \o target_hex ELSE slug

\* download, "3. Resolve Format": the format, the capability test, the target.
ResolveFormat ==
    /\ pc = "format"
    /\ format' = decide_format(format, output)
    /\ IF format' # SVG /\ (~cairosvg \/ ~Image)
       THEN /\ err' = "capability"
            /\ exitCode' = 1
            /\ pc' = "exit"
            /\ target' = target
       ELSE /\ target' = target_path(slug, format', output)
            /\ pc' = "fetch"
            /\ UNCHANGED <<err, exitCode>>
    /\ UNCHANGED <<cmd, icon_data, fuzzyTried, netlog, slug, target_hex, svg_content,
                   fsTarget, failure>>
    /\ UNCHANGED <<loadVars, optVars, fnVars, icnsVars>>

\* requests.get(url): a 404 prints "not found" and exits; any other failure
\* (raise_for_status, a network error) is an uncaught exception.
FetchAsset ==
    /\ pc = "fetch"
    /\ netlog' = Append(netlog, "asset")
    /\ \E status \in {"200", "404", "500", "error"} :
         /\ svg_content' = IF status = "200" THEN AssetDoc ELSE svg_content
         /\ pc' = IF status = "200" THEN "opacity" ELSE "exit"
         /\ err' = CASE status = "200" -> err
                     [] status = "404" -> "asset404"
                     [] OTHER -> "traceback"
         /\ exitCode' = IF status = "200" THEN exitCode ELSE 1
    /\ UNCHANGED <<cmd, icon_data, fuzzyTried, format, slug, target_hex, target, fsTarget,
                   failure>>
    /\ UNCHANGED <<loadVars, optVars, fnVars, icnsVars>>

\* download, "4. Apply Opacity".
ApplyOpacity ==
    /\ pc = "opacity"
    /\ svg_content' = apply_opacity(svg_content, opacity)
    /\ pc' = "export"
    /\ UNCHANGED <<cmd, exitCode, err, icon_data, fuzzyTried, netlog, format, slug,
                   target_hex, target, fsTarget, failure>>
    /\ UNCHANGED <<loadVars, optVars, fnVars, icnsVars>>

\* ------------------------------------------------------------------ export

IcnsLadder == <<16, 32, 128, 256, 512>>

\* The with block of tempfile.TemporaryDirectory removes the directory when an
\* exception leaves it: whether the directory exists afterwards.
StagingLeftOnRaise == staging

StagingAfterRaise == FALSE

\* An exception raised inside convert_image (or by target.write_bytes) reaches
\* download's except clause; one raised inside the with block leaves it first.
Raise(kind) ==
    /\ failure' = kind
    /\ pc' = "except"
    /\ staging' = IF staging THEN StagingAfterRaise ELSE staging

\* download, format == "svg": target.write_bytes(svg_content), which opens the
\* file for writing (truncating it) and then writes.
WriteSvg ==
    /\ pc = "export"
    /\ format = SVG
    /\ \E r \in {"ok", "open_error", "write_error"} :
         /\ fsTarget' = CASE r = "ok" -> "complete"
                          [] r = "write_error" -> "partial"
                          [] OTHER -> fsTarget
         /\ IF r = "ok"
            THEN pc' = "print" /\ UNCHANGED <<failure, staging>>
            ELSE Raise(IF r = "open_error" THEN "open" ELSE "write")
    /\ UNCHANGED <<cmd, exitCode, err, icon_data, fuzzyTried, netlog, format, slug,
                   target_hex, target, svg_content, staged, ladder, density>>
    /\ UNCHANGED <<loadVars, optVars, fnVars>>

\* Whether tuple(int(h[i:i+2], 16) for i in (0, 2, 4)) succeeds on the
\* background with its leading # stripped: three non-empty pairs of digits.
BackgroundParses(b) ==
    LET h == LStrip(b, "#")
    IN /\ Len(h) >= 5
       /\ \A i \in 1..Len(h) :
             i <= 6 => h[i] \in {"0", "1", "2", "3", "4", "5", "6", "7", "8", "9", "A", "B",
                                 "C", "D", "E", "F", "a", "b", "c", "d", "e", "f"}

\* The call convert_image(svg_content, target, format, size, background): the
\* background is parsed (a ValueError when it is no hex colour) and the branch
\* of the format is entered.
ConvertImage ==
    /\ pc = "export"
    /\ format # SVG
    /\ IF Truthy(background) /\ ~BackgroundParses(background)
       THEN Raise("background")
       ELSE /\ pc' = CASE format \in {PNG, ICO, JPG} -> "raster"
                       [] format = ICNS -> "mkstaging"
                       [] OTHER -> "fallback"
            /\ UNCHANGED <<failure, staging>>
    /\ UNCHANGED <<cmd, exitCode, err, icon_data, fuzzyTried, netlog, format, slug,
                   target_hex, target, svg_content, fsTarget, staged, ladder, density>>
    /\ UNCHANGED <<loadVars, optVars, fnVars>>

\* cairosvg.svg2png(bytestring=...): the rasterization, into memory.  In the
\* icns loop it is the rendering of the current resolution at the current
\* density.  What follows depends on the format and on the background: jpg
\* always has one (white by default), ico always goes through Pillow.
Svg2Png ==
    /\ pc = "raster"
    /\ \E ok \in BOOLEAN :
         IF ok
         THEN /\ pc' = CASE format = PNG -> (IF Truthy(background) THEN "compose" ELSE "open_write")
                         [] format = ICNS -> (IF Truthy(background) THEN "compose" ELSE "stage")
                         [] OTHER -> "compose"
              /\ UNCHANGED <<failure, staging>>
         ELSE Raise("rasterize")
    /\ UNCHANGED <<cmd, exitCode, err, icon_data, fuzzyTried, netlog, format, slug,
                   target_hex, target, svg_content, fsTarget, staged, ladder, density>>
    /\ UNCHANGED <<loadVars, optVars, fnVars>>

\* Pillow in memory: Image.open of the raster, Image.new of the background,
\* alpha_composite or paste (and, in the icns loop, the save into a buffer).
Compose ==
    /\ pc = "compose"
    /\ \E ok \in BOOLEAN :
         IF ok
         THEN /\ pc' = IF format = ICNS THEN "stage" ELSE "save"
              /\ UNCHANGED <<failure, staging>>
         ELSE Raise("composite")
    /\ UNCHANGED <<cmd, exitCode, err, icon_data, fuzzyTried, netlog, format, slug,
                   target_hex, target, svg_content, fsTarget, staged, ladder, density>>
    /\ UNCHANGED <<loadVars, optVars, fnVars>>

\* Pillow's save(target, ...): the file is opened for writing (created, or
\* truncated when it exists) and the encoder writes into it.  When encoding
\* fails Pillow removes the file only if this call created it; a file that
\* was there before stays, truncated.
PilSave ==
    /\ pc = "save"
    /\ \E r \in {"ok", "open_error", "encode_error"} :
         /\ fsTarget' = CASE r = "ok" -> "complete"
                          [] r = "encode_error" /\ fsTarget # "absent" -> "partial"
                          [] OTHER -> fsTarget
         /\ IF r = "ok"
            THEN pc' = "print" /\ UNCHANGED <<failure, staging>>
            ELSE Raise(IF r = "open_error" THEN "open" ELSE "encode")
    /\ UNCHANGED <<cmd, exitCode, err, icon_data, fuzzyTried, netlog, format, slug,
                   target_hex, target, svg_content, staged, ladder, density>>
    /\ UNCHANGED <<loadVars, optVars, fnVars>>

\* png without a background: with open(target, "wb") as f: f.write(png_data).
OpenWrite ==
    /\ pc = "open_write"
    /\ \E r \in {"ok", "open_error", "write_error"} :
         /\ fsTarget' = CASE r = "ok" -> "complete"
                          [] r = "write_error" -> "partial"
                          [] OTHER -> fsTarget
         /\ IF r = "ok"
            THEN pc' = "print" /\ UNCHANGED <<failure, staging>>
            ELSE Raise(IF r = "open_error" THEN "open" ELSE "write")
    /\ UNCHANGED <<cmd, exitCode, err, icon_data, fuzzyTried, netlog, format, slug,
                   target_hex, target, svg_content, staged, ladder, density>>
    /\ UNCHANGED <<loadVars, optVars, fnVars>>

\* Any other format: cairosvg.svg2png(..., write_to=str(target)), which renders
\* in memory and then writes the PNG to the target.
Fallback ==
    /\ pc = "fallback"
    /\ \E r \in {"ok", "raster_error", "open_error", "write_error"} :
         /\ fsTarget' = CASE r = "ok" -> "complete"
                          [] r = "write_error" -> "partial"
                          [] OTHER -> fsTarget
         /\ IF r = "ok"
            THEN pc' = "print" /\ UNCHANGED <<failure, staging>>
            ELSE Raise(CASE r = "raster_error" -> "rasterize"
                         [] r = "open_error" -> "open"
                         [] OTHER -> "write")
    /\ UNCHANGED <<cmd, exitCode, err, icon_data, fuzzyTried, netlog, format, slug,
                   target_hex, target, svg_content, staged, ladder, density>>
    /\ UNCHANGED <<loadVars, optVars, fnVars>>

\* icns: tempfile.TemporaryDirectory() and iconset.mkdir(); the loop starts at
\* the first resolution.  A failure leaves no directory behind.
MakeStaging ==
    /\ pc = "mkstaging"
    /\ \E ok \in BOOLEAN :
         IF ok
         THEN /\ staging' = TRUE
              /\ pc' = "raster"
              /\ UNCHANGED failure
         ELSE /\ failure' = "staging"
              /\ pc' = "except"
              /\ staging' = FALSE
    /\ staged' = {}
    /\ ladder' = IcnsLadder
    /\ density' = 1
    /\ UNCHANGED <<cmd, exitCode, err, icon_data, fuzzyTried, netlog, format, slug,
                   target_hex, target, svg_content, fsTarget>>
    /\ UNCHANGED <<loadVars, optVars, fnVars>>

\* icns: (iconset / f"icon_{s}x{s}.png").write_bytes(png_data), or the @2x
\* name; after the @2x file the loop goes to the next resolution, and after
\* the last one to the packaging.
Stage ==
    /\ pc = "stage"
    /\ \E ok \in BOOLEAN :
         IF ok
         THEN /\ staged' = staged \cup {[size |-> Head(ladder), scale |-> density]}
              /\ density' = IF density = 1 THEN 2 ELSE 1
              /\ ladder' = IF density = 1 THEN ladder ELSE Tail(ladder)
              /\ pc' = IF density = 2 /\ Tail(ladder) = <<>> THEN "package" ELSE "raster"
              /\ UNCHANGED <<failure, staging>>
         ELSE /\ Raise("write")
              /\ UNCHANGED <<staged, density, ladder>>
    /\ UNCHANGED <<cmd, exitCode, err, icon_data, fuzzyTried, netlog, format, slug,
                   target_hex, target, svg_content, fsTarget>>
    /\ UNCHANGED <<loadVars, optVars, fnVars>>

\* icns: subprocess.run(["iconutil", ...], check=True), then the end of the
\* with block.  The source does not decide what a failing iconutil leaves at
\* the target; the model takes it to leave the target as it was.
Package ==
    /\ pc = "package"
    /\ \E ok \in BOOLEAN :
         IF ok
         THEN /\ fsTarget' = "complete"
              /\ staging' = FALSE
              /\ pc' = "print"
              /\ UNCHANGED failure
         ELSE /\ Raise("package")
              /\ UNCHANGED fsTarget
    /\ UNCHANGED <<cmd, exitCode, err, icon_data, fuzzyTried, netlog, format, slug,
                   target_hex, target, svg_content, staged, ladder, density>>
    /\ UNCHANGED <<loadVars, optVars, fnVars>>

\* download: print(f"exported {target.name}") and return.
Exported ==
    /\ pc = "print"
    /\ pc' = "done"
    /\ exitCode' = 0
    /\ UNCHANGED <<cmd, err, icon_data, fuzzyTried, netlog, format, slug, target_hex, target,
                   svg_content, fsTarget, failure>>
    /\ UNCHANGED <<loadVars, optVars, fnVars, icnsVars>>

\* download: except Exception as e: print "Failed: ..." and sys.exit(1).
\* Nothing is removed here.
ExportFailed ==
    /\ pc = "except"
    /\ err' = "failed"
    /\ exitCode' = 1
    /\ pc' = "exit"
    /\ UNCHANGED <<cmd, icon_data, fuzzyTried, netlog, format, slug, target_hex, target,
                   svg_content, fsTarget, failure>>
    /\ UNCHANGED <<loadVars, optVars, fnVars, icnsVars>>

\* ------------------------------------------------------------------ the functions alone

MaxPasses == 2

\* The opacity edit applied to its own result.
OpacityPass ==
    /\ pc = "opacity_fn"
    /\ passes < MaxPasses
    /\ svg_content' = apply_opacity(svg_content, opacity)
    /\ first' = IF passes = 0 THEN svg_content' ELSE first
    /\ passes' = passes + 1
    /\ UNCHANGED <<cmd, pc, exitCode, err, icon_data, fuzzyTried, netlog, format, slug,
                   target_hex, target, fsTarget, failure, input>>
    /\ UNCHANGED <<loadVars, optVars, icnsVars>>

\* The colour resolution with --invert; the next run is given the result as
\* its --color.
InvertPass ==
    /\ pc = "color_fn"
    /\ passes < MaxPasses
    /\ target_hex' = resolve_color(color, invert, icon_data.hex)
    /\ color' = target_hex'
    /\ first' = IF passes = 0 THEN target_hex' ELSE first
    /\ passes' = passes + 1
    /\ UNCHANGED <<cmd, pc, exitCode, err, icon_data, fuzzyTried, netlog, format, slug,
                   target, svg_content, fsTarget, failure, input>>
    /\ UNCHANGED <<invert, opacity, background, output, cairosvg, Image, formatArg, cache0>>
    /\ UNCHANGED <<loadVars, icnsVars>>

\* ------------------------------------------------------------------ inputs

MaxSlugLen == 2
MaxQueryLen == 3
MaxIcons == 2
MaxDocLen == 5

SlugChars == {"a", "b"}
Slugs == SeqsOf(SlugChars, 1, MaxSlugLen)
Queries == SeqsOf(SlugChars, 0, MaxQueryLen)
Catalogs == {CatalogOf(ss) : ss \in SeqsOf(Slugs, 0, MaxIcons)}

DocTokens == {SvgOpen, OpacityAttr, Quote, "5", ">"}
Docs == SeqsOf(DocTokens, 0, MaxDocLen)
Opacities == {0, 1, 50000, 100000}

HexSample == {"0", "1", "D", "F", "a"}
HexInputs == [1..HexWidth -> HexSample]

DlCatalog == CatalogOf(<< <<"a", "b">>, <<"b">> >>)
DlQueries == { <<"a", "b">>, <<"a">>, <<"a", "a">> }
DlFormats == {SVG, PNG, ICO, JPG, ICNS, <<"P", "N", "G">>, <<"g", "i", "f">>}
DlOutputs ==
    {NoneRec}
    \cup {[name |-> n, is_dir |-> FALSE] :
            n \in { <<"i">>, <<"i", ".", "p", "n", "g">>, <<"i", ".", "t", "x", "t">>,
                    <<"i", ".", "J", "P", "G">>, <<".", "p", "n", "g">> }}
    \cup {[name |-> n, is_dir |-> TRUE] : n \in { <<"d">>, <<"d", ".", "p", "n", "g">> }}
DlColors == {NoneStr, <<"#", "F", "F", "0", "0", "0", "0">>}
DlBackgrounds == {NoneStr, <<"#", "0", "0", "0", "0", "0", "0">>, <<"r", "e", "d">>}

\* What every specification starts from: nothing loaded, resolved or written.
Idle ==
    /\ exitCode = Running
    /\ err = None
    /\ icons = <<>>
    /\ icon_data = NoneRec
    /\ fuzzyTried = FALSE
    /\ netlog = <<>>
    /\ target_hex = NoneStr
    /\ target = <<>>
    /\ staging = FALSE
    /\ staged = {}
    /\ ladder = <<>>
    /\ density = 1
    /\ failure = None
    /\ passes = 0
    /\ first = <<>>

\* ------------------------------------------------------------------ specifications

\* info <query> and download <query> with every option at its default, the
\* catalog in the cache, over every catalog and query of the bounds.
InitResolve ==
    /\ Idle
    /\ cmd \in {"info", "download"}
    /\ pc = "get_data"
    /\ remote \in Catalogs
    /\ cache = [state |-> "valid", data |-> remote]
    /\ cache0 = cache
    /\ query \in Queries
    /\ slug = query
    /\ color = NoneStr
    /\ invert = FALSE
    /\ opacity = OpacityOne
    /\ background = NoneStr
    /\ format = SVG
    /\ formatArg = format
    /\ output = NoneRec
    /\ cairosvg = TRUE
    /\ Image = TRUE
    /\ svg_content = <<>>
    /\ fsTarget = "absent"
    /\ input = <<>>

NextResolve ==
    \/ GetData
    \/ Resolve
    \/ InfoPrint
    \/ ResolveColor
    \/ ResolveFormat
    \/ FetchAsset
    \/ ApplyOpacity
    \/ WriteSvg
    \/ Exported
    \/ ExportFailed

SpecResolve == InitResolve /\ [][NextResolve]_vars

\* download over its options, the state of the cache, the optional imports and
\* the file at the target, for one catalog.
Init ==
    /\ Idle
    /\ cmd = "download"
    /\ pc = "get_data"
    /\ remote = DlCatalog
    /\ cache \in {[state |-> "absent", data |-> <<>>],
                  [state |-> "valid", data |-> remote],
                  [state |-> "corrupt", data |-> Junk]}
    /\ cache0 = cache
    /\ query \in DlQueries
    /\ slug = query
    /\ color \in DlColors
    /\ invert \in BOOLEAN
    /\ opacity \in {50000, OpacityOne}
    /\ background \in DlBackgrounds
    /\ format \in DlFormats
    /\ formatArg = format
    /\ output \in DlOutputs
    /\ cairosvg \in BOOLEAN
    /\ Image \in BOOLEAN
    /\ svg_content = <<>>
    /\ fsTarget \in {"absent", "old"}
    /\ input = <<>>

Next ==
    \/ GetData
    \/ Resolve
    \/ ResolveColor
    \/ ResolveFormat
    \/ FetchAsset
    \/ ApplyOpacity
    \/ WriteSvg
    \/ ConvertImage
    \/ Svg2Png
    \/ Compose
    \/ PilSave
    \/ OpenWrite
    \/ Fallback
    \/ MakeStaging
    \/ Stage
    \/ Package
    \/ Exported
    \/ ExportFailed

Spec == Init /\ [][Next]_vars

\* The opacity edit alone, over every document and opacity of the bounds.
InitOpacity ==
    /\ Idle
    /\ cmd = "pure"
    /\ pc = "opacity_fn"
    /\ remote = <<>>
    /\ cache = [state |-> "absent", data |-> <<>>]
    /\ cache0 = cache
    /\ query = <<>>
    /\ slug = <<>>
    /\ color = NoneStr
    /\ invert = FALSE
    /\ opacity \in Opacities
    /\ background = NoneStr
    /\ format = SVG
    /\ formatArg = format
    /\ output = NoneRec
    /\ cairosvg = TRUE
    /\ Image = TRUE
    /\ svg_content \in Docs
    /\ fsTarget = "absent"
    /\ input = svg_content

SpecOpacity == InitOpacity /\ [][OpacityPass]_vars

\* The colour resolution with --invert alone, the hex given as --color or
\* taken from the record.
InitInvert ==
    /\ exitCode = Running
    /\ err = None
    /\ icons = <<>>
    /\ fuzzyTried = FALSE
    /\ netlog = <<>>
    /\ target_hex = NoneStr
    /\ target = <<>>
    /\ staging = FALSE
    /\ staged = {}
    /\ ladder = <<>>
    /\ density = 1
    /\ failure = None
    /\ passes = 0
    /\ first = <<>>
    /\ cmd = "pure"
    /\ pc = "color_fn"
    /\ remote = <<>>
    /\ cache = [state |-> "absent", data |-> <<>>]
    /\ cache0 = cache
    /\ query = <<>>
    /\ slug = <<>>
    /\ input \in HexInputs
    /\ \E given \in BOOLEAN :
         /\ color = IF given THEN input ELSE NoneStr
         /\ icon_data = [slug |-> <<"a">>, title |-> 1,
                         hex |-> IF given THEN <<"1", "D", "A", "1", "F", "2">> ELSE input]
    /\ invert = TRUE
    /\ opacity = OpacityOne
    /\ background = NoneStr
    /\ format = SVG
    /\ formatArg = format
    /\ output = NoneRec
    /\ cairosvg = TRUE
    /\ Image = TRUE
    /\ svg_content = <<>>
    /\ fsTarget = "absent"

SpecInvert == InitInvert /\ [][InvertPass]_vars

\* ------------------------------------------------------------------ properties

\* The commands of SpecResolve have run resolve_icon.
Resolved == pc \notin {"get_data", "resolve"}

\* C1: when the query equals the slug of a catalog record verbatim,
\* resolve_icon returns that record (the first with that slug) and
\* process.extractOne is never called.
C1_ExactMatchSkipsFuzzy ==
    (Resolved /\ \E i \in 1..Len(icons) : icons[i].slug = query)
    => /\ \E i \in 1..Len(icons) :
            /\ icon_data = icons[i]
            /\ icons[i].slug = query
            /\ \A j \in 1..(i - 1) : icons[j].slug # query
       /\ ~fuzzyTried

\* An exact match on the second record of a catalog whose first record would
\* pass the fuzzy threshold, downloaded to the end.
C1_Witness ==
    /\ cmd = "download"
    /\ pc = "done"
    /\ Len(icons) = 2
    /\ icons[2].slug = query
    /\ icons[1].slug # query
    /\ ScoreAtLeast(FuzzRatio(query, icons[1].slug), 60)
    /\ icon_data = icons[2]

\* No slug of the catalog scores at least 60 against the query.
NoSlugScores60 ==
    \A i \in 1..Len(icons) : 200 * LCS(query, icons[i].slug) < 60 * (Len(query) + Len(icons[i].slug))
                             /\ Len(query) + Len(icons[i].slug) > 0

\* C2: when no catalog slug scores at least 60 against the query,
\* resolve_icon returns None, and info and download exit with status 1
\* without fetching the icon asset or writing the output file.
C2_BelowThresholdIsNotFound ==
    (Resolved /\ NoSlugScores60)
    => /\ icon_data = NoneRec
       /\ pc = "exit"
       /\ exitCode = 1
       /\ err = "notfound"
       /\ netlog = <<>>
       /\ fsTarget = "absent"
       /\ svg_content = <<>>

\* download of a query that shares letters with both slugs of the catalog but
\* scores under 60 against each.
C2_Witness ==
    /\ cmd = "download"
    /\ pc = "exit"
    /\ err = "notfound"
    /\ Len(icons) = 2
    /\ NoSlugScores60
    /\ \A i \in 1..2 : LCS(query, icons[i].slug) > 0

\* C3: when download stops on the missing rendering capability, no network
\* fetch was made before: neither the catalog's nor the asset's.
C3_CapabilityErrorBeforeAnyFetch ==
    err = "capability" => netlog = <<>>

\* The ten files of an iconset: five resolutions at two densities.
TenRasters == {[size |-> s, scale |-> d] : s \in {16, 32, 128, 256, 512}, d \in {1, 2}}

\* C4: when iconutil is invoked the staging directory holds exactly the ten
\* rasters, and once convert_image has returned or raised the staging
\* directory does not exist.
C4_TenStagedThenCleanedUp ==
    /\ pc = "package" => (staging /\ staged = TenRasters /\ Cardinality(staged) = 10)
    /\ pc \in {"print", "except", "done", "exit"} => ~staging

\* iconutil failed with the ten rasters staged, and download has exited.
C4_Witness ==
    /\ pc = "exit"
    /\ failure = "package"
    /\ Cardinality(staged) = 10
    /\ ~staging

\* C5: when a rasterization, compositing, encoding or packaging step of an
\* export fails, the export is aborted and no partial file is left at the
\* target path.
C5_NoPartialOutputOnFailure ==
    failure \in {"rasterize", "composite", "encode", "package"}
    => /\ pc \in {"except", "exit"}
       /\ fsTarget # "partial"

\* A document whose first token opens the root element and whose root
\* opening tag is closed.
Rooted(d) == d # <<>> /\ d[1] = SvgOpen /\ \E i \in 1..Len(d) : d[i] = ">"

\* What follows the root element's opening tag.
AfterRootTag(d) ==
    LET gt == CHOOSE i \in 1..Len(d) : d[i] = ">" /\ \A j \in 1..(i - 1) : d[j] # ">"
    IN SubSeq(d, gt + 1, Len(d))

\* C6: for an opacity below 1.0 the edit changes the root element's opening
\* tag only: everything after it, nested opacity attributes included, is as
\* it was.
C6_OnlyRootElementEdited ==
    (passes >= 1 /\ opacity < OpacityOne /\ Rooted(input))
    => AfterRootTag(first) = AfterRootTag(input)

\* The formats convert_image and download have a branch for.
Recognized == {SVG, PNG, ICO, JPG, ICNS}

\* download has passed "3. Resolve Format".
FormatDecided == icon_data # NoneRec /\ pc \notin {"get_data", "resolve", "color", "format"}

\* C7: the chosen format is the output path's extension exactly when the path
\* is given, is not a directory and has a recognized extension; otherwise it
\* is the requested format (compared without regard to case).
C7_RecognizedExtensionElseRequested ==
    FormatDecided
    => format = IF /\ output # NoneRec
                   /\ ~output.is_dir
                   /\ LStrip(Lower(PathSuffix(output.name)), ".") \in Recognized
                THEN LStrip(Lower(PathSuffix(output.name)), ".")
                ELSE Lower(formatArg)

\* How many GETs of DATA_URL were made.
CatalogFetches == Cardinality({i \in 1..Len(netlog) : netlog[i] = "catalog"})

\* C8: a cache file that exists but does not parse is treated as absent:
\* get_data returns only what one GET of DATA_URL gave, having written it
\* over the cache file; when that fails the command exits with status 1
\* after the one attempt, no catalog returned.
C8_CorruptCacheIsRefetched ==
    cache0.state = "corrupt"
    => /\ CatalogFetches <= 1
       /\ pc # "get_data" =>
            \/ /\ err = "fetchdata"
               /\ pc = "exit"
               /\ exitCode = 1
               /\ icons = <<>>
               /\ netlog = <<"catalog">>
            \/ /\ err # "fetchdata"
               /\ icons = remote
               /\ cache = [state |-> "valid", data |-> remote]
               /\ Head(netlog) = "catalog"

\* download ran to the end on the catalog refetched over a corrupt cache.
C8_Witness ==
    /\ cache0.state = "corrupt"
    /\ pc = "done"
    /\ icons = remote
    /\ cache.state = "valid"

\* The spelling of a hex string with its letters in upper case.
UpperText(s) ==
    [i \in 1..Len(s) |->
        CASE s[i] = "a" -> "A" [] s[i] = "b" -> "B" [] s[i] = "c" -> "C"
          [] s[i] = "d" -> "D" [] s[i] = "e" -> "E" [] s[i] = "f" -> "F"
          [] OTHER -> s[i]]

\* C9 as stated: inverting twice gives back the six digits that were given.
C9_InvertTwiceIsInput ==
    passes = 2 => target_hex = input

\* C9 as amended: inverting twice gives back the same 24-bit value, written
\* as six digits with its letters in upper case.
C9_InvertTwiceIsInputUppercased ==
    passes = 2
    => /\ target_hex = UpperText(input)
       /\ ParseHex(target_hex) = ParseHex(input)
       /\ Len(target_hex) = HexWidth

\* A hex in lower case taken from the record and inverted twice.
C9_Witness ==
    /\ passes = 2
    /\ icon_data.hex = <<"1", "D", "a", "1", "F", "0">>
    /\ first = <<"E", "2", "5", "E", "0", "F">>
    /\ target_hex = <<"1", "D", "A", "1", "F", "0">>

\* C10: the opacity edit applied twice with the same value gives what it
\* gave the first time.
C10_OpacityIdempotent ==
    passes >= 2 => svg_content = first

\* A document with an opacity attribute on the root and on a nested element,
\* edited twice with 0.5.
C10_Witness ==
    /\ passes = 2
    /\ opacity = 50000
    /\ input = <<SvgOpen, OpacityAttr, "5", Quote, ">">>
    /\ first = <<SvgOpen, OpacityAttr, "0", ".", "5", Quote, ">">>
    /\ svg_content = first

====
